---------------------------- MODULE Spec2Model ----------------------------
(***************************************************************************)
(* Model of the schema-driven Redis access layer (RedisModel/RedisClient   *)
(* of src/src/utils/redis-client.ts): the positional codec, the readiness  *)
(* gate, the model operations set/get/delete/with/randomKey.set, and the   *)
(* store connection they issue commands to.                                *)
(***************************************************************************)
EXTENDS Integers, Sequences, FiniteSets, TLC

(***************************************************************************)
(* Bounds of the model.                                                    *)
(***************************************************************************)
\* call slots of the model: callers' calls that can be in flight at all
MaxSlots == 2
\* polls a gate may see while the connection is still unready (Spec only)
MaxUnreadyPolls == 1
\* seconds of age the ttl bookkeeping distinguishes
MaxAge == 3
\* store commands the store may reject in one behaviour
MaxFailures == 1
\* longest sequence value the codec specification draws
MaxSeqLen == 2

(***************************************************************************)
(* Program constants.                                                      *)
(***************************************************************************)
\* attempt ceiling of waitWhenReady: `if (attempt > 300)`
MaxAttempts == 300

(***************************************************************************)
(* JavaScript values.  Every value is a record of the same four fields so  *)
(* that values of different types can be compared: t is the runtime type,  *)
(* v the lexeme of a primitive, k the own enumerable keys of an object in  *)
(* insertion order, e the members (of an object: by position in k; of an   *)
(* array: the elements).                                                   *)
(***************************************************************************)
Str(s) == [t |-> "str", v |-> s, k |-> <<>>, e |-> <<>>]
Num(s) == [t |-> "num", v |-> s, k |-> <<>>, e |-> <<>>]
Bool(s) == [t |-> "bool", v |-> s, k |-> <<>>, e |-> <<>>]
Null == [t |-> "null", v |-> "", k |-> <<>>, e |-> <<>>]
Undefined == [t |-> "undefined", v |-> "", k |-> <<>>, e |-> <<>>]
Arr(es) == [t |-> "arr", v |-> "", k |-> <<>>, e |-> es]
Obj(ks, es) == [t |-> "obj", v |-> "", k |-> ks, e |-> es]
\* a thrown error (TypeError, validation error, ...) carried as a value
Thrown(what) == [t |-> "throw", v |-> what, k |-> <<>>, e |-> <<>>]

\* typeof x === "object"  (true of null, arrays and objects)
TypeofObject(x) == x.t \in {"null", "arr", "obj"}

\* JavaScript truthiness of a value: `if (x)`, `x && ...`
Truthy(x) ==
  /\ x.t \notin {"null", "undefined"}
  /\ ~(x.t = "num" /\ x.v = "0")
  /\ ~(x.t = "str" /\ x.v = "")
  /\ ~(x.t = "bool" /\ x.v = "false")

\* payload[key] for a string key that is a field name
Member(payload, key) ==
  IF payload.t = "obj" /\ \E i \in 1..Len(payload.k) : payload.k[i] = key
  THEN payload.e[CHOOSE i \in 1..Len(payload.k) : payload.k[i] = key]
  ELSE Undefined

(***************************************************************************)
(* Schemas (seal templates).  t is the schema type; an object schema holds *)
(* its field names k in declaration order and the field schemas e; a       *)
(* nullable or array schema holds its inner schema as e[1].                *)
(***************************************************************************)
SStr == [t |-> "str", k |-> <<>>, e |-> <<>>]
SNum == [t |-> "num", k |-> <<>>, e |-> <<>>]
SBool == [t |-> "bool", k |-> <<>>, e |-> <<>>]
SNullable(s) == [t |-> "nullable", k |-> <<>>, e |-> <<s>>]
SArr(s) == [t |-> "arr", k |-> <<>>, e |-> <<s>>]
SObj(ks, ss) == [t |-> "obj", k |-> ks, e |-> ss]

\* Object.keys(seal.exportMetadataOf(template).shape || {})
ShapeKeys(template) == IF template.t = "obj" THEN template.k ELSE <<>>

(***************************************************************************)
(* RedisModel.serialize.  The shape keys are always those of the model's   *)
(* own template (this.template), also when serialize recurses into a       *)
(* member.  A null payload reaches payload[key] or Object.values(payload)  *)
(* and throws a TypeError.                                                 *)
(***************************************************************************)
RECURSIVE serialize(_, _)
serialize(template, payload) ==
  IF ~TypeofObject(payload) THEN payload
  ELSE IF payload.t = "null" THEN Thrown("TypeError")
  ELSE LET schemaShapeKeys == ShapeKeys(template)
           enc(v) == IF Truthy(v) /\ TypeofObject(v) THEN serialize(template, v) ELSE v
       IN IF Len(schemaShapeKeys) > 0
          THEN Arr([i \in 1..Len(schemaShapeKeys) |-> enc(Member(payload, schemaShapeKeys[i]))])
          ELSE Arr([i \in 1..Len(payload.e) |-> enc(payload.e[i])])


(***************************************************************************)
(* The transport string.  A string is a sequence of lexical tokens         *)
(* [k: kind, s: lexeme]; the empty sequence is the empty string.           *)
(***************************************************************************)
Tok(kind, lexeme) == [k |-> kind, s |-> lexeme]

\* JSON.stringify of an encoded tree: undefined inside an array is written
\* as null; serialize never leaves a named-field object in the tree
RECURSIVE JSONstringify(_)
JSONstringify(x) ==
  LET RECURSIVE elems(_)
      elems(i) == IF i > Len(x.e) THEN <<>>
                  ELSE (IF i > 1 THEN <<Tok(",", "")>> ELSE <<>>)
                       \o JSONstringify(x.e[i]) \o elems(i + 1)
  IN CASE x.t = "arr" -> <<Tok("[", "")>> \o elems(1) \o <<Tok("]", "")>>
       [] x.t \in {"str", "num", "bool"} -> <<Tok(x.t, x.v)>>
       [] OTHER -> <<Tok("null", "")>>

\* JSON.parse, by recursive descent: the value that starts at token i and
\* the index of the token after it
RECURSIVE ParseValue(_, _)
ParseValue(toks, i) ==
  LET RECURSIVE items(_, _)
      items(j, acc) ==
        IF toks[j].k = "]" THEN [val |-> Arr(acc), next |-> j + 1]
        ELSE LET p == ParseValue(toks, IF toks[j].k = "," THEN j + 1 ELSE j)
             IN items(p.next, Append(acc, p.val))
  IN CASE toks[i].k = "[" -> items(i + 1, <<>>)
       [] toks[i].k = "str" -> [val |-> Str(toks[i].s), next |-> i + 1]
       [] toks[i].k = "num" -> [val |-> Num(toks[i].s), next |-> i + 1]
       [] toks[i].k = "bool" -> [val |-> Bool(toks[i].s), next |-> i + 1]
       [] OTHER -> [val |-> Null, next |-> i + 1]

JSONparse(raw) == ParseValue(raw, 1).val

(***************************************************************************)
(* The schema collaborator's validate/decode: the parsed tree is accepted  *)
(* against the schema, a positional array standing for a named-field       *)
(* object in the schema's field order; a shape mismatch is thrown.         *)
(***************************************************************************)
RECURSIVE Validate(_, _)
Validate(schema, tree) ==
  LET kids(ss) == [i \in 1..Len(tree.e) |-> Validate(ss[i], tree.e[i])]
      sound(es) == \A i \in 1..Len(es) : es[i].t # "throw"
      elemSchemas == [i \in 1..Len(tree.e) |-> schema.e[1]]
  IN CASE schema.t \in {"str", "num", "bool"} ->
            IF tree.t = schema.t THEN tree ELSE Thrown("ValidationError")
       [] schema.t = "nullable" ->
            IF tree.t = "null" THEN Null ELSE Validate(schema.e[1], tree)
       [] schema.t = "arr" ->
            IF tree.t = "arr" /\ sound(kids(elemSchemas))
            THEN Arr(kids(elemSchemas)) ELSE Thrown("ValidationError")
       [] OTHER ->
            IF tree.t = "arr" /\ Len(tree.e) = Len(schema.k) /\ sound(kids(schema.e))
            THEN Obj(schema.k, kids(schema.e)) ELSE Thrown("ValidationError")

\* sealJsonParser(raw, template)
sealJsonParser(raw, template) == Validate(template, JSONparse(raw))

(***************************************************************************)
(* Schema-conformant values, for the inputs of the model.                  *)
(***************************************************************************)
StrVals == {Str(""), Str("x")}
NumVals == {Num("0"), Num("1")}
BoolVals == {Bool("false"), Bool("true")}

RECURSIVE Conforming(_)
Conforming(schema) ==
  LET RECURSIVE tuples(_)
      tuples(i) == IF i > Len(schema.e) THEN {<<>>}
                   ELSE {<<h>> \o r : h \in Conforming(schema.e[i]), r \in tuples(i + 1)}
  IN CASE schema.t = "str" -> StrVals
       [] schema.t = "num" -> NumVals
       [] schema.t = "bool" -> BoolVals
       [] schema.t = "nullable" -> Conforming(schema.e[1]) \cup {Null}
       [] schema.t = "arr" ->
            {Arr(es) : es \in UNION {[1..n -> Conforming(schema.e[1])] : n \in 0..MaxSeqLen}}
       [] OTHER -> {Obj(schema.k, es) : es \in tuples(1)}


(***************************************************************************)
(* Keys.  A key is a sequence of characters; "+" is the separator.         *)
(***************************************************************************)
\* RedisModel.fullKey
fullKey(namespace, key) == namespace \o <<"+">> \o key

\* delete as it would be if it named the store key of the entry
delKeyFull(namespace, key) == fullKey(namespace, key)

\* the store key RedisModel.delete hands to client.del
delKey(namespace, key) == key

(***************************************************************************)
(* The options object a caller hands to RedisClient.model.  Each of ttl,   *)
(* readOnce and namespace is <<>> when the object has no such key (or its  *)
(* value is undefined) and <<x>> when it has; keys is the insertion order  *)
(* of the keys that have a value.  No options at all (`options || {}`) is  *)
(* the object without keys.                                                *)
(***************************************************************************)
Options(ttl, readOnce, namespace, keys) ==
  [ttl |-> ttl, readOnce |-> readOnce, namespace |-> namespace, keys |-> keys]

NoOptions == Options(<<>>, <<>>, <<>>, <<>>)

\* the client configuration: randomNamespaceLength, optional
Config(randomNamespaceLength) == [randomNamespaceLength |-> randomNamespaceLength]

NoConfig == Config(<<>>)

\* JSON.stringify(options || {}): the keys in insertion order, each with the
\* text of its value
OptionsJSON(opts) ==
  [i \in 1..Len(opts.keys) |->
     <<opts.keys[i],
       CASE opts.keys[i] = "ttl" -> ToString(opts.ttl[1])
         [] opts.keys[i] = "readOnce" -> ToString(opts.readOnce[1])
         [] OTHER -> ToString(opts.namespace[1])>>]

\* default of config.randomNamespaceLength
DefaultNamespaceLength == 8

\* config?.randomNamespaceLength || 8
NamespaceLength(config) ==
  IF config.randomNamespaceLength = <<>> \/ config.randomNamespaceLength = <<0>>
  THEN DefaultNamespaceLength
  ELSE config.randomNamespaceLength[1]

\* base64url digest of shake256 over JSON.stringify([metadata, options]):
\* one symbol per digest byte, determined by the hashed text
Digest(template, opts, outputLength) ==
  [i \in 1..outputLength |-> ToString(<<template, OptionsJSON(opts), i>>)]

\* RedisModel constructor as it would be if it hashed also when the caller
\* gives a namespace
NewOptionsHashed(template, opts, config) ==
  [ttl |-> opts.ttl,
   readOnce |-> IF opts.readOnce # <<>> THEN opts.readOnce[1] ELSE FALSE,
   namespace |-> Digest(template, opts, NamespaceLength(config))]

\* RedisModel constructor, lines 26-35: this.options of a model built from
\* the caller's options
NewOptions(template, opts, config) ==
  [ttl |-> opts.ttl,
   readOnce |-> IF opts.readOnce # <<>> THEN opts.readOnce[1] ELSE FALSE,
   namespace |-> IF opts.namespace # <<>> THEN opts.namespace[1]
                 ELSE Digest(template, opts, NamespaceLength(config))]

(***************************************************************************)
(* The models of the store specification and their inputs.                 *)
(***************************************************************************)
Models == {1, 2}

\* the templates models are declared with: an object with a nullable nested
\* object, and a nullable number
ModelTemplates ==
  <<SObj(<<"id", "meta">>, <<SStr, SNullable(SObj(<<"n">>, <<SNum>>))>>),
    SNullable(SNum)>>

\* the values callers write through a model of a template: conformant to it
ValuesOf(template) ==
  IF template = ModelTemplates[1]
  THEN {Obj(<<"id", "meta">>, <<Str("x"), Null>>),
        Obj(<<"id", "meta">>, <<Str("x"), Obj(<<"n">>, <<Num("1")>>)>>)}
  ELSE NumVals \cup {Null}

\* the options callers may declare model m with
OptionChoices(m) ==
  IF m = 1 THEN {Options(<<2>>, <<r>>, <<<<"A">>>>, <<"ttl", "readOnce", "namespace">>) :
                   r \in BOOLEAN}
                \cup {Options(<<>>, <<r>>, <<<<"A">>>>, <<"readOnce", "namespace">>) :
                        r \in BOOLEAN}
  ELSE {NoOptions}

\* a call of RedisClient.model(template, options) on a client of `config`
Declaration(template, opts, config, built) ==
  [template |-> template, options |-> opts, config |-> config, built |-> built]

\* user keys: a plain one, and one that is spelled like a full key of model 1
PlainKeys == {<<"k">>}
UserKeys == PlainKeys \cup {fullKey(<<"A">>, <<"k">>)}

\* what crypto.randomBytes(n).toString("base64url") may return
RandomKeys == {<<"r">>}

(***************************************************************************)
(* State.                                                                  *)
(***************************************************************************)
VARIABLES
  ready,      \* client.isReady
  declared,   \* what each model is declared with, and whether it is built yet
  options,    \* this.options of each model
  calls,      \* the invocations of model methods, by task
  timers,     \* the live setInterval timers, in the order they fire next
  queue,      \* commands handed to the client and not yet executed
  store,      \* the store: key -> entry (exp: seconds left to live, 0 = for ever)
  lastWrite,  \* per store key, the last executed write and its age in seconds
  failures,   \* commands the store has rejected
  uncaught,   \* tasks whose timer callback threw
  unhandled,  \* tasks with a promise rejection nobody awaits
  deleted,    \* <<model, key>>: a delete of the caller was executed, no set since
  consumed,   \* <<model, key>>: a read-once delete was executed, no set since
  codec       \* the codec pipeline of the codec specification

vars == <<ready, declared, options, calls, timers, queue, store, lastWrite, failures,
          uncaught, unhandled, deleted, consumed, codec>>

\* this.template of model m
Template(m) == declared[m].template

\* the values callers write through model m
Values(m) == ValuesOf(Template(m))

\* a task is one invocation of a method: tasks 1..MaxSlots are the callers'
\* calls, the others the detached deletes that gets start
Slots == 1..MaxSlots
Tasks == 1..(2 * MaxSlots)
\* the task of the detached delete that the get of slot c starts
DetachedOf(c) == c + MaxSlots
Detached(t) == t \notin Slots
\* the caller of the store specification awaits each call before it makes the
\* next: it has one call in flight (writes and detached deletes overlap it)
Callers == {1}

Absent == [present |-> FALSE, raw |-> <<>>, exp |-> 0]
Entry(raw, exp) == [present |-> TRUE, raw |-> raw, exp |-> exp]
\* bookkeeping of the last write a key has seen: its string, the ttl it was
\* written with, the seconds since, and the method that wrote it
NoWrite ==
  [live |-> FALSE, raw |-> <<>>, ttl |-> <<>>, age |-> 0, value |-> Undefined, by |-> "none"]
Write(raw, ttl, value, by) ==
  [live |-> TRUE, raw |-> raw, ttl |-> ttl, age |-> 0, value |-> value, by |-> by]

Pending == [kind |-> "pending", val |-> Undefined]
Resolved(x) == [kind |-> "resolved", val |-> x]
Rejected(x) == [kind |-> "rejected", val |-> x]

\* a key returned to the caller, as a value
KeyVal(key) == [t |-> "key", v |-> "", k |-> key, e |-> <<>>]
\* what the caller's callback returns for a payload
CallbackResult(payload) == [t |-> "cb", v |-> "", k |-> <<>>, e |-> <<payload>>]

NoReply == [kind |-> "none", raw |-> <<>>]
NilReply == [kind |-> "nil", raw |-> <<>>]
RawReply(raw) == [kind |-> "raw", raw |-> raw]
ErrReply == [kind |-> "error", raw |-> <<>>]

FreeCall ==
  [op |-> "none", m |-> 1, key |-> <<>>, value |-> Undefined, force |-> FALSE,
   pc |-> "free", attempt |-> 0, outcome |-> Pending,
   got |-> Pending, invoked |-> 0, reply |-> NoReply, fresh |-> NoWrite,
   spawned |-> FALSE, writeFailed |-> FALSE, issued |-> <<>>,
   afterDelete |-> FALSE, afterConsume |-> FALSE,
   readyAtCall |-> FALSE, issuedReady |-> <<>>, seq |-> 0, racing |-> 0]

\* a fresh invocation; readyAtCall keeps what client.isReady was at the call
NewCall(op, m, key, value, force) ==
  [FreeCall EXCEPT !.op = op, !.m = m, !.key = key, !.value = value,
                   !.force = force, !.pc = "start", !.readyAtCall = ready]

\* the user keys of the calls
AllKeys == UserKeys \cup RandomKeys
\* RedisClient.model, line 197: the options of the model of a declaration
Built(d) == NewOptions(d.template, d.options, d.config)

\* every key a command of the models can address in the store
StoreKeys ==
  AllKeys \cup {fullKey(Built(declared[m]).namespace, k) : m \in Models, k \in AllKeys}

CodecIdle == [stage |-> "idle", schema |-> SNum, value |-> Undefined,
              enc |-> Undefined, raw |-> <<>>, out |-> Undefined]

Init ==
  /\ ready = FALSE
  /\ \E o1 \in OptionChoices(1), o2 \in OptionChoices(2) :
        declared = [m \in Models |->
                      Declaration(ModelTemplates[m], IF m = 1 THEN o1 ELSE o2, NoConfig, TRUE)]
  /\ options = [m \in Models |-> Built(declared[m])]
  /\ calls = [t \in Tasks |-> FreeCall]
  /\ timers = <<>>
  /\ queue = <<>>
  /\ store = [k \in StoreKeys |-> Absent]
  /\ lastWrite = [k \in StoreKeys |-> NoWrite]
  /\ failures = 0
  /\ uncaught = {}
  /\ unhandled = {}
  /\ deleted = {}
  /\ consumed = {}
  /\ codec = CodecIdle


(***************************************************************************)
(* The methods of RedisModel, as steps of a task.  A world is the part of  *)
(* the state a step of a method changes: [calls, queue, timers].           *)
(***************************************************************************)
\* a command: its name, store key, ttl and string, the task that issued it
\* and (for a write) the value the string encodes
Command(cmd, key, ttl, raw, task, value) ==
  [cmd |-> cmd, key |-> key, ttl |-> ttl, raw |-> raw, task |-> task, value |-> value]

\* the command is handed to the client
Issue(w, t, command) ==
  [w EXCEPT !.queue = Append(@, command),
            !.calls[t].issued = Append(@, command.cmd),
            !.calls[t].issuedReady = Append(@, ready)]

\* set as it would be if it ignored the model's ttl
SetCommandNoTtl(opts, key, raw, task, value) ==
  Command("set", fullKey(opts.namespace, key), 0, raw, task, value)

\* set as it would be if it wrote under the user key
SetCommandUserKey(opts, key, raw, task, value) ==
  IF opts.ttl # <<>>
  THEN Command("setEx", key, opts.ttl[1], raw, task, value)
  ELSE Command("set", key, 0, raw, task, value)

\* set, lines 50-53: the write set issues for an encoded value
SetCommand(opts, key, raw, task, value) ==
  IF opts.ttl # <<>>
  THEN Command("setEx", fullKey(opts.namespace, key), opts.ttl[1], raw, task, value)
  ELSE Command("set", fullKey(opts.namespace, key), 0, raw, task, value)

\* set as it would be if it returned the key it wrote under
SetResultFullKey(opts, key) == KeyVal(fullKey(opts.namespace, key))

\* set, line 55: `return key`
SetResult(opts, key) == KeyVal(key)

\* get, line 68
GetCommand(opts, key, task) ==
  Command("get", fullKey(opts.namespace, key), 0, <<>>, task, Undefined)

\* delete, line 88
DelCommand(opts, key, task) ==
  Command("del", delKey(opts.namespace, key), 0, <<>>, task, Undefined)

\* what a method does once the gate has let it pass, up to its next await
Proceed(w, t) ==
  LET c == w.calls[t]
      opts == options[c.m]
  IN CASE c.op \in {"set", "randomKey.set"} ->
            LET enc == serialize(Template(c.m), c.value)
            IN IF enc.t = "throw"
               THEN [w EXCEPT !.calls[t].pc = "done", !.calls[t].outcome = Rejected(enc)]
               ELSE [Issue(w, t, SetCommand(opts, c.key, JSONstringify(enc), t, c.value))
                       EXCEPT !.calls[t].pc = "done",
                              !.calls[t].outcome = Resolved(SetResult(opts, c.key))]
       [] c.op \in {"get", "with"} ->
            [Issue(w, t, GetCommand(opts, c.key, t)) EXCEPT !.calls[t].pc = "await"]
       [] OTHER ->
            [Issue(w, t, DelCommand(opts, c.key, t)) EXCEPT !.calls[t].pc = "await"]

\* a method as it would start if it did not wait for the connection
BeginUngated(w, t) == Proceed(w, t)

\* waitWhenReady, lines 145-148, and the method's start: with the connection
\* ready the method goes on at once, else an interval timer is armed
Begin(w, t) ==
  IF ready THEN Proceed(w, t)
  ELSE [w EXCEPT !.calls[t].pc = "gate", !.timers = Append(@, t)]

\* `!rawValue`: no entry, or an empty string
Missing(reply) == reply.kind = "nil" \/ (reply.kind = "raw" /\ reply.raw = <<>>)

\* get as it would be if it started the read-once delete before looking at
\* what it read
StartsDeleteUnseen(opts, reply) == opts.readOnce

\* get as it would be if it started the delete on every model
StartsDeleteAlways(opts, reply) == ~Missing(reply)

\* get, line 75: whether this get starts the read-once delete
StartsDelete(opts, reply) == opts.readOnce /\ ~Missing(reply)

\* get, lines 69-77: what get settles with for a reply of the store
GetOutcome(m, force, reply) ==
  IF reply.kind = "error" THEN Rejected(Thrown("StoreError"))
  ELSE IF Missing(reply)
       THEN IF force THEN Rejected(Thrown("NotFound")) ELSE Resolved(Null)
       ELSE LET x == sealJsonParser(reply.raw, Template(m))
            IN IF x.t = "throw" THEN Rejected(x) ELSE Resolved(x)

\* with, line 101: whether the callback runs for what get returned
RunsCallback(got) == got.kind = "resolved" /\ Truthy(got.val)

\* with, lines 100-102: what with settles with
WithOutcome(got) ==
  IF got.kind = "rejected" THEN got
  ELSE IF RunsCallback(got) THEN Resolved(CallbackResult(got.val)) ELSE Resolved(Null)

\* the continuation of get (and of with) when the store's reply arrives
GetContinue(w, t, reply, fresh) ==
  LET c == w.calls[t]
      d == DetachedOf(t)
      spawn == reply.kind # "error" /\ StartsDelete(options[c.m], reply)
      w1 == IF spawn
            THEN Begin([w EXCEPT !.calls[d] = NewCall("delete", c.m, c.key, Undefined, FALSE)], d)
            ELSE w
      got == GetOutcome(c.m, c.force, reply)
  IN [w1 EXCEPT !.calls[t].pc = "done",
                !.calls[t].reply = reply,
                !.calls[t].fresh = fresh,
                !.calls[t].spawned = spawn,
                !.calls[t].afterDelete = <<c.m, c.key>> \in deleted,
                !.calls[t].afterConsume = <<c.m, c.key>> \in consumed,
                !.calls[t].got = got,
                !.calls[t].outcome = IF c.op = "with" THEN WithOutcome(got) ELSE got,
                !.calls[t].invoked = IF c.op = "with" /\ RunsCallback(got) THEN 1 ELSE 0]

\* the continuation of delete: it settles with what client.del settles with
DelContinue(w, t, reply, removed) ==
  [w EXCEPT !.calls[t].pc = "done",
            !.calls[t].reply = reply,
            !.calls[t].outcome = IF reply.kind = "error" THEN Rejected(Thrown("StoreError"))
                                 ELSE Resolved(Num(IF removed THEN "1" ELSE "0"))]

World == [calls |-> calls, queue |-> queue, timers |-> timers]

Becomes(w) ==
  /\ calls' = w.calls
  /\ queue' = w.queue
  /\ timers' = w.timers


(***************************************************************************)
(* Calls of the model methods by the callers.  A caller takes the lowest   *)
(* free slot; the method runs up to its first suspension in the same step. *)
(***************************************************************************)
SlotFree(cs, c) ==
  /\ calls[c].pc = "free"
  /\ calls[DetachedOf(c)].pc = "free"
  /\ \A b \in cs : b < c => calls[b].pc # "free"

\* the position of a new call in the order the unreleased calls were made
NextSeq == 1 + Cardinality({b \in Slots : calls[b].pc # "free"})

\* the slot of a get(key) on model m that has returned a value and whose
\* read-once delete the store has not executed yet (0: there is none)
Unconsumed(m, key) ==
  LET gs == {b \in Slots :
               /\ calls[b].op = "get" /\ calls[b].m = m /\ calls[b].key = key
               /\ calls[b].pc = "done" /\ calls[b].spawned
               /\ calls[b].got.kind = "resolved"
               /\ calls[DetachedOf(b)].pc \in {"gate", "await"}}
  IN IF gs = {} THEN 0 ELSE CHOOSE b \in gs : TRUE

Invoke(cs, c, op, m, key, value, force) ==
  /\ SlotFree(cs, c)
  /\ declared[m].built
  /\ Becomes(Begin([World EXCEPT
                      !.calls[c] = [NewCall(op, m, key, value, force) EXCEPT
                                      !.seq = NextSeq,
                                      !.racing = IF op = "get" THEN Unconsumed(m, key)
                                                 ELSE 0]], c))
  /\ deleted' = IF op \in {"set", "randomKey.set"} THEN deleted \ {<<m, key>>} ELSE deleted
  /\ consumed' = IF op \in {"set", "randomKey.set"} THEN consumed \ {<<m, key>>} ELSE consumed
  /\ UNCHANGED <<ready, declared, options, store, lastWrite, failures, uncaught, unhandled, codec>>

Set(cs, ks) ==
  \E c \in cs, m \in Models, key \in ks : \E value \in Values(m) :
     Invoke(cs, c, "set", m, key, value, FALSE)

Get(cs, ks) ==
  \E c \in cs, m \in Models, key \in ks, force \in BOOLEAN :
     Invoke(cs, c, "get", m, key, Undefined, force)

Delete(cs, ks) ==
  \E c \in cs, m \in Models, key \in ks :
     Invoke(cs, c, "delete", m, key, Undefined, FALSE)

With(cs, ks) ==
  \E c \in cs, m \in Models, key \in ks :
     Invoke(cs, c, "with", m, key, Undefined, FALSE)

\* randomKey.set, lines 117-120: set under a freshly drawn key
RandomKeySet(cs) ==
  \E c \in cs, m \in Models, key \in RandomKeys : \E value \in Values(m) :
     Invoke(cs, c, "randomKey.set", m, key, value, FALSE)

\* what a caller passes as ttlOrDate: a number of seconds, or a point in time
DateVal(s) == [t |-> "date", v |-> s, k |-> <<>>, e |-> <<>>]
ExpireArgs == {Num("1"), DateVal("tomorrow")}

\* model.expire(key, ttlOrDate): RedisModel has no member of that name, so
\* the call is a call of undefined: it throws a TypeError before any gate,
\* and nothing reaches the client
Expire(cs, ks) ==
  \E c \in cs, m \in Models, key \in ks, ttlOrDate \in ExpireArgs :
    /\ SlotFree(cs, c)
    /\ declared[m].built
    /\ calls' = [calls EXCEPT
                   ![c] = [NewCall("expire", m, key, ttlOrDate, FALSE) EXCEPT
                             !.seq = NextSeq,
                             !.pc = "done",
                             !.outcome = Rejected(Thrown("TypeError"))]]
    /\ UNCHANGED <<ready, declared, options, timers, queue, store, lastWrite, failures,
                   uncaught, unhandled, deleted, consumed, codec>>

\* the caller has taken the result of a settled call; its slot is free again
\* (the calls made after it move up one place in the order of the calls)
Release ==
  \E c \in Slots :
    LET d == DetachedOf(c)
    IN /\ calls[c].pc = "done"
       /\ calls[d].pc \in {"free", "done"}
       /\ \A i \in 1..Len(queue) : queue[i].task \notin {c, d}
       /\ calls' = [b \in Tasks |->
                      IF b \in {c, d} THEN FreeCall
                      ELSE IF calls[b].seq > calls[c].seq
                           THEN [calls[b] EXCEPT !.seq = @ - 1]
                           ELSE calls[b]]
       /\ unhandled' = unhandled \ {c, d}
       /\ UNCHANGED <<ready, declared, options, timers, queue, store, lastWrite, failures,
                      uncaught, deleted, consumed, codec>>

(***************************************************************************)
(* The connection and the timers.                                          *)
(***************************************************************************)
\* the connection reports ready: once, and for good
BecomeReady ==
  /\ ~ready
  /\ ready' = TRUE
  /\ UNCHANGED <<declared, options, calls, timers, queue, store, lastWrite, failures,
                 uncaught, unhandled, deleted, consumed, codec>>

\* the interval callback as it would be if it threw without clearing its timer
PollUncleared(limit) ==
  /\ timers # <<>>
  /\ LET t == Head(timers)
         attempt == calls[t].attempt + 1
         w == [World EXCEPT !.timers = Tail(timers), !.calls[t].attempt = attempt]
     IN /\ ready \/ calls[t].attempt < limit
        /\ IF attempt > MaxAttempts
           THEN /\ Becomes([w EXCEPT !.calls[t].pc = "hung", !.timers = Append(@, t)])
                /\ uncaught' = uncaught \cup {t}
           ELSE IF ~ready
                THEN /\ Becomes([w EXCEPT !.timers = Append(@, t)])
                     /\ UNCHANGED uncaught
                ELSE /\ Becomes(Proceed([w EXCEPT !.calls[t].attempt = 0], t))
                     /\ UNCHANGED uncaught
  /\ UNCHANGED <<ready, declared, options, store, lastWrite, failures, unhandled, deleted,
                 consumed, codec>>

\* waitWhenReady, lines 149-161: the interval callback of the timer due next.
\* `limit` bounds the polls a gate sees while the connection is unready.  The
\* counter is local to waitWhenReady: it is gone once the gate has resolved.
Poll(limit) ==
  /\ timers # <<>>
  /\ LET t == Head(timers)
         attempt == calls[t].attempt + 1
         w == [World EXCEPT !.timers = Tail(timers), !.calls[t].attempt = attempt]
     IN /\ ready \/ calls[t].attempt < limit
        /\ IF attempt > MaxAttempts
           THEN /\ Becomes([w EXCEPT !.calls[t].pc = "hung"])
                /\ uncaught' = uncaught \cup {t}
           ELSE IF ~ready
                THEN /\ Becomes([w EXCEPT !.timers = Append(@, t)])
                     /\ UNCHANGED uncaught
                ELSE /\ Becomes(Proceed([w EXCEPT !.calls[t].attempt = 0], t))
                     /\ UNCHANGED uncaught
  /\ UNCHANGED <<ready, declared, options, store, lastWrite, failures, unhandled, deleted,
                 consumed, codec>>

(***************************************************************************)
(* The store connection: commands are executed in the order they were      *)
(* handed over, and the reply resumes the method that awaits it.           *)
(***************************************************************************)
\* the <<model, key>> pairs whose deletes are kept track of: those gets read
Watched == Models \X (PlainKeys \cup RandomKeys)

StoreExec ==
  /\ queue # <<>>
  /\ \E fail \in BOOLEAN :
       LET h == Head(queue)
           t == h.task
           w == [World EXCEPT !.queue = Tail(queue)]
           old == store[h.key]
           reply == IF fail THEN ErrReply
                    ELSE IF h.cmd = "get" /\ old.present THEN RawReply(old.raw)
                    ELSE NilReply
       IN /\ fail => failures < MaxFailures
          /\ failures' = IF fail THEN failures + 1 ELSE failures
          /\ store' = IF fail THEN store
                      ELSE CASE h.cmd \in {"set", "setEx"} ->
                                  [store EXCEPT ![h.key] = Entry(h.raw, h.ttl)]
                             [] h.cmd = "del" -> [store EXCEPT ![h.key] = Absent]
                             [] OTHER -> store
          /\ lastWrite' = IF fail THEN lastWrite
                          ELSE CASE h.cmd = "setEx" ->
                                      [lastWrite EXCEPT ![h.key] = Write(h.raw, <<h.ttl>>, h.value, calls[t].op)]
                                 [] h.cmd = "set" ->
                                      [lastWrite EXCEPT ![h.key] = Write(h.raw, <<>>, h.value, calls[t].op)]
                                 [] h.cmd = "del" -> [lastWrite EXCEPT ![h.key] = NoWrite]
                                 [] OTHER -> lastWrite
          /\ CASE h.cmd \in {"set", "setEx"} ->
                    /\ Becomes([w EXCEPT !.calls[t].writeFailed = fail])
                    /\ unhandled' = IF fail THEN unhandled \cup {t} ELSE unhandled
               [] h.cmd = "get" ->
                    /\ Becomes(GetContinue(w, t, reply, lastWrite[h.key]))
                    /\ UNCHANGED unhandled
               [] OTHER ->
                    /\ Becomes(DelContinue(w, t, reply, old.present))
                    /\ unhandled' = IF fail /\ Detached(t) THEN unhandled \cup {t}
                                    ELSE unhandled
          /\ deleted' = IF h.cmd = "del" /\ ~fail /\ ~Detached(t)
                        THEN deleted \cup ({<<calls[t].m, calls[t].key>>} \cap Watched)
                        ELSE deleted
          /\ consumed' = IF /\ h.cmd = "del" /\ ~fail /\ Detached(t)
                            /\ calls[t - MaxSlots].got.kind = "resolved"
                         THEN consumed \cup ({<<calls[t].m, calls[t].key>>} \cap Watched)
                         ELSE consumed
  /\ UNCHANGED <<ready, declared, options, uncaught, codec>>

\* one second passes: entries written with a ttl come closer to their end
Tick ==
  /\ store' = [k \in DOMAIN store |->
                 IF store[k].present /\ store[k].exp = 1 THEN Absent
                 ELSE IF store[k].present /\ store[k].exp > 1
                      THEN [store[k] EXCEPT !.exp = @ - 1]
                      ELSE store[k]]
  /\ lastWrite' = [k \in DOMAIN lastWrite |->
                     IF lastWrite[k].live /\ lastWrite[k].age < MaxAge
                     THEN [lastWrite[k] EXCEPT !.age = @ + 1]
                     ELSE lastWrite[k]]
  /\ UNCHANGED <<ready, declared, options, calls, timers, queue, failures, uncaught,
                 unhandled, deleted, consumed, codec>>

(***************************************************************************)
(* The store specification.                                                *)
(***************************************************************************)
Next ==
  \/ Set(Callers, PlainKeys)
  \/ Get(Callers, PlainKeys)
  \/ Delete(Callers, UserKeys)
  \/ With(Callers, PlainKeys)
  \/ Expire(Callers, PlainKeys)
  \/ Release
  \/ BecomeReady
  \/ Poll(MaxUnreadyPolls)
  \/ StoreExec
  \/ Tick

Spec == Init /\ [][Next]_vars


(***************************************************************************)
(* The random-key specification: the caller writes under generated keys,   *)
(* through randomKey.set and through set, and reads them.                  *)
(***************************************************************************)
NextRandomKey ==
  \/ RandomKeySet(Callers)
  \/ Set(Callers, RandomKeys)
  \/ Get(Callers, RandomKeys)
  \/ Release
  \/ BecomeReady
  \/ Poll(MaxUnreadyPolls)
  \/ StoreExec
  \/ Tick

SpecRandomKey == Init /\ [][NextRandomKey]_vars

(***************************************************************************)
(* The overlap specification: the caller does not await a call before it   *)
(* makes the next, so that sets and gets are in flight together, across    *)
(* the moment the connection becomes ready.                                *)
(***************************************************************************)
\* the calls the caller has in flight together
Overlapping == {1, 2}

NextOverlap ==
  \/ Set(Overlapping, PlainKeys)
  \/ Get(Overlapping, PlainKeys)
  \/ Release
  \/ BecomeReady
  \/ Poll(MaxUnreadyPolls)
  \/ StoreExec

SpecOverlap == Init /\ [][NextOverlap]_vars

(***************************************************************************)
(* The gate specification: the connection never reports ready, and the     *)
(* timers run up to the attempt ceiling and past it.                       *)
(***************************************************************************)
GateCallers == {1}

NextGate ==
  \/ Set(GateCallers, PlainKeys)
  \/ Get(GateCallers, PlainKeys)
  \/ Delete(GateCallers, PlainKeys)
  \/ With(GateCallers, PlainKeys)
  \/ RandomKeySet(GateCallers)
  \/ Poll(MaxAttempts + 1)

SpecGate == Init /\ [][NextGate]_vars

(***************************************************************************)
(* The gate specification with a connection that may become ready at any   *)
(* poll, or never.  The event loop runs every timer that is due and the    *)
(* store answers every command: Poll and StoreExec are weakly fair.  Weak  *)
(* fairness of an action A is []<>~ENABLED <<A>>_vars \/ []<><<A>>_vars;    *)
(* it is written here with the enabling condition of each action spelled   *)
(* out as a state predicate.                                               *)
(***************************************************************************)
\* ENABLED <<Poll(limit)>>_vars: a timer is armed and may fire
PollDue(limit) ==
  timers # <<>> /\ (ready \/ calls[Head(timers)].attempt < limit)

\* ENABLED <<StoreExec>>_vars: a command waits at the store
StoreDue == queue # <<>>

\* the event loop fires the timer that is due
FairPoll(limit) == []<>(~PollDue(limit)) \/ []<><<Poll(limit)>>_vars

\* the store executes the command that waits
FairStore == []<>(~StoreDue) \/ []<><<StoreExec>>_vars

\* one declaration of the two models: the first read-once
InitGateLive ==
  /\ Init
  /\ declared[1].options = Options(<<>>, <<TRUE>>, <<<<"A">>>>, <<"readOnce", "namespace">>)

NextGateLive ==
  \/ Set(GateCallers, PlainKeys)
  \/ Get(GateCallers, PlainKeys)
  \/ Release
  \/ BecomeReady
  \/ Poll(MaxAttempts + 1)
  \/ StoreExec

SpecGateLive ==
  /\ InitGateLive
  /\ [][NextGateLive]_vars
  /\ FairPoll(MaxAttempts + 1)
  /\ FairStore

(***************************************************************************)
(* The construction specification: the caller declares two models, each    *)
(* on a client of its own configuration over the one ready connection, and *)
(* writes and reads through the models that are built.                     *)
(***************************************************************************)
\* the options objects callers write
BuildOptions ==
  { NoOptions,
    Options(<<2>>, <<TRUE>>, <<>>, <<"ttl", "readOnce">>),
    Options(<<2>>, <<TRUE>>, <<>>, <<"readOnce", "ttl">>),
    Options(<<>>, <<FALSE>>, <<>>, <<"readOnce">>),
    Options(<<>>, <<>>, <<<<"A">>>>, <<"namespace">>),
    Options(<<>>, <<>>, <<<<>>>>, <<"namespace">>) }

\* the configurations of their clients: the default length, and a length of 2
BuildConfigs == {Config(<<0>>), Config(<<2>>)}

Declarations ==
  {Declaration(ModelTemplates[i], o, c, FALSE) :
     i \in DOMAIN ModelTemplates, o \in BuildOptions, c \in BuildConfigs}

\* this.options of a model that is not constructed yet
Unbuilt == [ttl |-> <<>>, readOnce |-> FALSE, namespace |-> <<>>]

InitBuild ==
  /\ ready = TRUE
  /\ declared \in [Models -> Declarations]
  /\ options = [m \in Models |-> Unbuilt]
  /\ calls = [t \in Tasks |-> FreeCall]
  /\ timers = <<>>
  /\ queue = <<>>
  /\ store = [k \in StoreKeys |-> Absent]
  /\ lastWrite = [k \in StoreKeys |-> NoWrite]
  /\ failures = 0
  /\ uncaught = {}
  /\ unhandled = {}
  /\ deleted = {}
  /\ consumed = {}
  /\ codec = CodecIdle

\* RedisClient.model(template, options), lines 196-198 and 25-38
Model ==
  \E m \in Models :
    /\ ~declared[m].built
    /\ options' = [options EXCEPT ![m] = Built(declared[m])]
    /\ declared' = [declared EXCEPT ![m].built = TRUE]
    /\ UNCHANGED <<ready, calls, timers, queue, store, lastWrite, failures,
                   uncaught, unhandled, deleted, consumed, codec>>

NextBuild ==
  \/ Model
  \/ Set(Callers, PlainKeys)
  \/ Get(Callers, PlainKeys)
  \/ Release
  \/ StoreExec

SpecBuild == InitBuild /\ [][NextBuild]_vars

(***************************************************************************)
(* The codec specification: a template and a value conforming to it are    *)
(* drawn, and the value goes the way set and get send it: serialize,       *)
(* JSON.stringify, then sealJsonParser against the same template.          *)
(***************************************************************************)
CodecTemplates ==
  { SStr, SNum, SBool,
    SNullable(SStr),
    SArr(SStr), SArr(SNullable(SNum)),
    SObj(<<"userId">>, <<SStr>>),
    SObj(<<"a", "b">>, <<SStr, SNullable(SNum)>>),
    SObj(<<"a", "b">>, <<SNum, SObj(<<"c">>, <<SStr>>)>>),
    SObj(<<"a", "b">>, <<SNum, SObj(<<"b", "a">>, <<SNum, SNum>>)>>),
    SObj(<<"tags">>, <<SArr(SStr)>>) }

CodecInput(schema, value) ==
  [stage |-> "input", schema |-> schema, value |-> value,
   enc |-> Undefined, raw |-> <<>>, out |-> Undefined]

InitCodec ==
  /\ ready = FALSE
  /\ declared = [m \in Models |->
                   Declaration(ModelTemplates[m], CHOOSE o \in OptionChoices(m) : TRUE,
                               NoConfig, TRUE)]
  /\ options = [m \in Models |-> Built(declared[m])]
  /\ calls = [t \in Tasks |-> FreeCall]
  /\ timers = <<>>
  /\ queue = <<>>
  /\ store = [k \in StoreKeys |-> Absent]
  /\ lastWrite = [k \in StoreKeys |-> NoWrite]
  /\ failures = 0
  /\ uncaught = {}
  /\ unhandled = {}
  /\ deleted = {}
  /\ consumed = {}
  /\ \E schema \in CodecTemplates : \E value \in Conforming(schema) :
        codec = CodecInput(schema, value)

UnchangedStore ==
  UNCHANGED <<ready, declared, options, calls, timers, queue, store, lastWrite, failures,
              uncaught, unhandled, deleted, consumed>>

\* set, line 49, inner call: serialize(value)
CodecSerialize ==
  /\ codec.stage = "input"
  /\ LET enc == serialize(codec.schema, codec.value)
     IN codec' = [codec EXCEPT !.enc = enc,
                               !.stage = IF enc.t = "throw" THEN "thrown" ELSE "encoded"]
  /\ UnchangedStore

\* set, line 49, outer call: JSON.stringify(...)
CodecStringify ==
  /\ codec.stage = "encoded"
  /\ codec' = [codec EXCEPT !.raw = JSONstringify(codec.enc), !.stage = "written"]
  /\ UnchangedStore

\* get, line 77: sealJsonParser(rawValue, this.template)
CodecParse ==
  /\ codec.stage = "written"
  /\ codec' = [codec EXCEPT !.out = sealJsonParser(codec.raw, codec.schema),
                            !.stage = "read"]
  /\ UnchangedStore

NextCodec == CodecSerialize \/ CodecStringify \/ CodecParse

SpecCodec == InitCodec /\ [][NextCodec]_vars


(***************************************************************************)
(* Properties.                                                             *)
(***************************************************************************)
\* the gets (and the gets inside with) that have settled on a reply
SettledReads ==
  {t \in Slots : calls[t].op \in {"get", "with"} /\ calls[t].pc = "done"
                 /\ calls[t].reply.kind # "error"}

NullOrNotFound == {Resolved(Null), Rejected(Thrown("NotFound"))}

\* C1: once a delete(k) of the caller has been executed on a model and no
\* set(k, .) was called on it since, a get(k) on that model returns null
\* (not-found under force): delete removes the entry set wrote.
C1_DeleteThenGetNull ==
  \A t \in SettledReads :
     calls[t].afterDelete => calls[t].got \in NullOrNotFound

\* C2: on a read-once model, once the detached delete of a get that returned
\* a value has been executed and no set(k, .) was called since, every get(k)
\* returns null, or fails with not-found under force.
C2_ReadOnceConsumes ==
  \A t \in SettledReads :
     calls[t].afterConsume => calls[t].got \in NullOrNotFound

\* C3: what serialize and JSON.stringify write for a conformant value
\* decodes, against the same template, to a value equal to it.
C3_RoundTrip ==
  codec.stage = "read" => codec.out = codec.value

\* C4: a call whose gate has polled past the ceiling of 300 attempts is
\* rejected with the initialization-timeout error, and no call is rejected
\* before its gate has passed the ceiling.
C4_TimeoutRejects ==
  \A t \in Tasks :
     /\ calls[t].attempt > MaxAttempts =>
          calls[t].outcome = Rejected(Thrown("InitializationTimeout"))
     /\ calls[t].outcome.kind = "rejected" => calls[t].attempt > MaxAttempts

\* C5: a get that finds no entry under the full key fails with not-found
\* under force and returns null without; it has issued its one read and
\* nothing else, and has started no delete, read-once model or not.
C5_ForceSemantics ==
  \A t \in SettledReads :
     calls[t].reply.kind = "nil" =>
        /\ calls[t].got = IF calls[t].force THEN Rejected(Thrown("NotFound"))
                          ELSE Resolved(Null)
        /\ calls[t].issued = <<"get">>
        /\ ~calls[t].spawned
        /\ calls[DetachedOf(t)] = FreeCall
        /\ \A i \in 1..Len(queue) : queue[i].task \notin {t, DetachedOf(t)}

C5_Witness ==
  \E t \in SettledReads :
     /\ calls[t].op = "get" /\ calls[t].force
     /\ calls[t].reply.kind = "nil"
     /\ options[calls[t].m].readOnce
     /\ calls[t].outcome = Rejected(Thrown("NotFound"))

\* C6: a rejected store command rejects the call that issued it; the only
\* rejection nobody receives is that of a detached read-once delete.  So a
\* set whose write was rejected is itself rejected.
C6_ErrorsSurface ==
  /\ \A t \in unhandled : Detached(t)
  /\ \A t \in Slots : calls[t].writeFailed => calls[t].outcome.kind = "rejected"

\* C7: every command a model operation hands to the client addresses
\* namespace + "+" + userKey, with the namespace of the operation's model.
C7_Namespaced ==
  \A i \in 1..Len(queue) :
     LET c == calls[queue[i].task]
     IN queue[i].key = options[c.m].namespace \o <<"+">> \o c.key

C10_WithCallback ==
  \A t \in Slots :
     LET c == calls[t]
     IN (c.op = "with" /\ c.pc = "done" /\ c.got.kind = "resolved") =>
           IF c.got.val # Null
           THEN c.invoked = 1 /\ c.outcome = Resolved(CallbackResult(c.got.val))
           ELSE c.invoked = 0 /\ c.outcome = Resolved(Null)

\* C11: on a read-once model, a get (or the get inside with) that has started
\* the delete of its key returns the decoded value: none ends in an error.
C11_TriggeringGetReturns ==
  \A t \in Slots :
     LET c == calls[t]
     IN (c.op \in {"get", "with"} /\ c.pc = "done" /\ c.spawned) =>
           c.got.kind = "resolved"

C14_ExpireIssues ==
  \A t \in Slots :
     LET c == calls[t]
     IN (c.op = "expire" /\ c.pc = "done") =>
           /\ c.outcome.kind = "resolved"
           /\ c.issued = IF c.value.t = "num" THEN <<"expire">> ELSE <<"expireAt">>
           /\ c.issuedReady = <<TRUE>>

\* C15: every command a model operation has handed to the client, the
\* delete a read-once get starts included, was handed over at a moment the
\* connection reported ready; an operation that still waits at its gate has
\* handed over nothing, and nothing is queued while the connection is not
\* ready.
C15_GateSafety ==
  /\ \A t \in Tasks :
        /\ \A i \in 1..Len(calls[t].issuedReady) : calls[t].issuedReady[i]
        /\ calls[t].pc \in {"start", "gate", "hung"} => calls[t].issued = <<>>
  /\ ~ready => queue = <<>>

C15_Witness ==
  \E c \in Slots :
     /\ calls[c].op = "get" /\ ~calls[c].readyAtCall
     /\ calls[c].issued = <<"get">> /\ calls[c].issuedReady = <<TRUE>>
     /\ calls[DetachedOf(c)].issued = <<"del">>
     /\ calls[DetachedOf(c)].issuedReady = <<TRUE>>

\* the tasks that have a live interval timer
Armed == {timers[i] : i \in 1..Len(timers)}

\* C16: a call made while the connection is ready passes its gate without
\* a timer and without a poll.  A gate that waits has exactly one timer,
\* and its timer is gone once the gate has resolved or has timed out.  The
\* first poll that finds the connection ready, up to the 300th, resolves
\* the gate and the method goes on in the same turn.  Every gate that waits
\* stops waiting, and a gate that finds the connection ready by its 300th
\* poll has its operation completed.
C16_GateLiveness ==
  /\ [](\A t \in Tasks :
          /\ calls[t].readyAtCall =>
                calls[t].pc \notin {"start", "gate", "hung"} /\ calls[t].attempt = 0
          /\ t \in Armed <=> calls[t].pc = "gate")
  /\ [](\A i, j \in 1..Len(timers) : timers[i] = timers[j] => i = j)
  /\ [][\A t \in Tasks :
          ( /\ timers # <<>> /\ Head(timers) = t /\ timers' # timers
            /\ ready /\ calls[t].attempt < MaxAttempts )
          => /\ calls'[t].pc \in {"await", "done"}
             /\ t \notin {timers'[i] : i \in 1..Len(timers')}]_vars
  /\ \A t \in GateCallers : (calls[t].pc = "gate") ~> (calls[t].pc # "gate")
  /\ \A t \in GateCallers :
        (calls[t].pc = "gate" /\ ready /\ calls[t].attempt < MaxAttempts)
           ~> (calls[t].pc = "done")

C16_Witness ==
  \E t \in Slots :
     /\ calls[t].op = "get" /\ ~calls[t].readyAtCall
     /\ calls[t].pc = "done" /\ calls[t].outcome.kind = "resolved"
     /\ calls[t].issued = <<"get">>
     /\ timers = <<>>

\* C17: when set(k, v1) and then set(k, v2) are called on one model, the
\* second after the first, and the store has executed the writes of both,
\* the entry of k is the one the later call wrote: v2.
C17_CallOrder ==
  \A a, b \in Slots :
     LET ca == calls[a]
         cb == calls[b]
         k == fullKey(options[ca.m].namespace, ca.key)
     IN ( /\ ca.op = "set" /\ cb.op = "set"
          /\ ca.m = cb.m /\ ca.key = cb.key
          /\ ca.seq < cb.seq
          /\ ca.issued # <<>> /\ cb.issued # <<>>
          /\ ~ca.writeFailed /\ ~cb.writeFailed
          /\ \A i \in 1..Len(queue) : queue[i].task \notin {a, b} )
        => lastWrite[k].value = cb.value

\* C18: read-once is not an atomic consume.  The read and the delete of a
\* read-once get are two commands: in the step in which a get returns a value
\* the store is as it was, and the delete it started is at most handed to the
\* connection.  On a model without ttl, a get(k) called after a read-once
\* get(k) has returned a value and before the store has executed that get's
\* delete finds the entry still there when the store answers it.
C18_ReadOnceRace ==
  /\ [](\A t \in Slots :
          LET c == calls[t]
          IN ( /\ c.op = "get" /\ c.pc = "done" /\ c.racing # 0
               /\ options[c.m].readOnce /\ options[c.m].ttl = <<>>
               /\ c.reply.kind # "error" )
             => ~Missing(c.reply) /\ c.spawned)
  /\ [][\A t \in Slots :
          ( /\ calls[t].op = "get" /\ calls[t].pc = "await"
            /\ calls'[t].pc = "done" /\ calls'[t].spawned )
          => /\ store' = store
             /\ store[fullKey(options[calls[t].m].namespace, calls[t].key)].present
             /\ queue' = Tail(queue) \o
                            <<DelCommand(options[calls[t].m], calls[t].key, DetachedOf(t))>>
             /\ calls'[DetachedOf(t)].pc = "await"]_vars

\* two gets of one key on a read-once model, the second called after the
\* first had returned its value and before the store had executed the first's
\* delete, have both returned the value of the same set; the store has
\* executed the delete of the first by then
C18_Witness ==
  \E a, b \in Slots :
     LET ca == calls[a]
         cb == calls[b]
     IN /\ a # b /\ cb.racing = a
        /\ ca.op = "get" /\ cb.op = "get"
        /\ ca.m = cb.m /\ ca.key = cb.key
        /\ options[ca.m].readOnce
        /\ ca.pc = "done" /\ cb.pc = "done"
        /\ ca.seq < cb.seq
        /\ calls[DetachedOf(a)].pc = "done"
        /\ ca.fresh.by = "set" /\ cb.fresh = ca.fresh
        /\ ca.got.kind = "resolved" /\ ca.got.val # Null
        /\ cb.got = ca.got
        /\ ca.got = Resolved(ca.fresh.value)

\* C19: frame of reads.  On a model with readOnce = false a get or a with
\* hands the connection exactly one command, a GET of the full key, and
\* starts no delete; the step that calls it and the step in which the store
\* answers it leave every store entry as it was and hand over no further
\* command, whether the entry is there or not and whether decoding succeeds
\* or fails.
C19_ReadFrame ==
  /\ [](\A t \in Slots :
          LET c == calls[t]
          IN (c.op \in {"get", "with"} /\ ~options[c.m].readOnce)
             => /\ c.pc \in {"await", "done"} => c.issued = <<"get">>
                /\ c.pc \notin {"await", "done"} => c.issued = <<>>
                /\ ~c.spawned
                /\ calls[DetachedOf(t)].pc = "free")
  /\ [][\A t \in Slots :
          LET m == calls'[t].m
          IN ( /\ calls'[t].op \in {"get", "with"} /\ ~options[m].readOnce
               /\ calls'[t] # calls[t] /\ calls'[t].pc # "free"
               /\ calls'[t].seq = calls[t].seq \/ calls[t].pc = "free" )
             => /\ store' = store /\ lastWrite' = lastWrite
                /\ calls[t].pc = "await"
                     => queue' = Tail(queue) /\ Head(queue).cmd = "get"
                /\ calls[t].pc # "await"
                     => queue' \in {queue,
                                    Append(queue, GetCommand(options[m], calls'[t].key, t))}]_vars

\* a get on a model with readOnce = false has read an entry that does not
\* decode and has thrown; the entry is in the store as it was read
C19_Witness ==
  \E t \in Slots :
     LET c == calls[t]
         k == fullKey(options[c.m].namespace, c.key)
     IN /\ c.op = "get" /\ c.pc = "done"
        /\ ~options[c.m].readOnce
        /\ c.issued = <<"get">>
        /\ c.reply.kind = "raw" /\ c.reply.raw # <<>>
        /\ c.outcome.kind = "rejected"
        /\ store[k].present /\ store[k].raw = c.reply.raw

==========================================================================
